---- MODULE Spec2Model ----
(***************************************************************************)
(* Model of NetworkLoggerBackend (src/NetworkLoggerBackend/                *)
(* network_logger.py): the per-client JSON log files of one log directory, *)
(* the upload handler, the file load/save helpers, clear_logs and the      *)
(* get_logs_* queries.                                                     *)
(*                                                                         *)
(* Python strings are sequences of one-character strings, so that          *)
(* str.replace, startswith, endswith and "in" are computed as the code     *)
(* computes them.  A file of the log directory is either a complete JSON   *)
(* array of entries (ok = TRUE) or text json.load cannot parse (ok =       *)
(* FALSE): an empty file left by open(path, 'w') or a partly written one.  *)
(*                                                                         *)
(* Spec     : handlers run one after another (one asyncio event loop; the  *)
(*            coroutines of the source never suspend), with the file       *)
(*            writes allowed to fail.                                      *)
(* SpecConc : callers that are not serialized by one event loop (threads,  *)
(*            worker processes sharing log_directory); every file-system   *)
(*            call of the source is one step.                              *)
(* SpecQ    : uploads, clears and the three queries, one after another,    *)
(*            with user ids that hold a path separator.                    *)
(* SpecR    : _get_client_file_path applied to two (address, user) pairs.  *)
(***************************************************************************)
EXTENDS Integers, Sequences, FiniteSets, TLC

VARIABLES files, max_logs, last, prev, ops, pc, loc, held, qry, rsv

vars == <<files, max_logs, last, prev, ops, pc, loc, held, qry, rsv>>

(* ------------------------------ bounds --------------------------------- *)
MaxOps == 2
MaxBatch == 2
MaxLogsBound == 2
NProcs == 2
MaxQOps == 3

(* ------------------------------ strings -------------------------------- *)
S_user == <<"_", "u", "s", "e", "r", "_">>
S_json == <<".", "j", "s", "o", "n">>

\* str.replace(old, new) for one-character old and new
replace(s, old, new) == [i \in 1..Len(s) |-> IF s[i] = old THEN new ELSE s[i]]

startswith(s, p) == Len(p) <= Len(s) /\ SubSeq(s, 1, Len(p)) = p

endswith(s, p) == Len(p) <= Len(s) /\ SubSeq(s, Len(s) - Len(p) + 1, Len(s)) = p

\* Python's "sub in s" on strings
contains(s, sub) ==
  \E i \in 0..(Len(s) - Len(sub)) : SubSeq(s, i + 1, i + Len(sub)) = sub

\* Optional[str]: None, or a string
None == [some |-> FALSE, s |-> <<>>]
Some(s) == [some |-> TRUE, s |-> s]

\* Python truthiness of an Optional[str]: None and "" are falsy
truthy(o) == o.some /\ Len(o.s) > 0

(* ------------------------------ inputs --------------------------------- *)
Addr12 == <<"1", ".", "2">>
Addr120 == <<"1", ".", "2", "0">>
Addrs == {Addr12, Addr120}

\* a JSON value of a sessionContext: its type and its text under str()
StrVal(s) == [t |-> "str", s |-> s]
IntVal(s) == [t |-> "int", s |-> s]

\* str(v)
str(v) == v.s

K_userId == "userId"
K_plan == "plan"

\* a sessionContext dict is a set of key/value pairs with distinct keys
CtxA == {[k |-> K_userId, v |-> StrVal(<<"a">>)]}
Ctx7 == {[k |-> K_userId, v |-> IntVal(<<"7">>)], [k |-> K_plan, v |-> StrVal(<<"p">>)]}
CtxPlan == {[k |-> K_plan, v |-> StrVal(<<"p">>)]}

RequiredFields == {"timestamp", "eventType", "networkType", "isConnected", "isInternetReachable"}

OptionalFields == {"serverConnected", "additionalInfo", "ipAddress", "subnet", "previousSubnet", "ssid", "bssid", "cellularGeneration", "details", "sessionContext", "server_received_at", "client_ip", "device_info"}

\* a raw event of request_data['logs']: the keys of the dict, and the values
\* of the two keys the engine reads (ctxNone: the key holds null)
Raw(fields, ts, ctxNone, ctx) ==
  [fields |-> fields, timestamp |-> ts, ctxNone |-> ctxNone, ctx |-> ctx]

RawPlain == Raw(RequiredFields, "T1", TRUE, {})
RawA == Raw(RequiredFields \cup {"sessionContext"}, "T2", FALSE, CtxA)
Raw7 == Raw(RequiredFields \cup {"sessionContext"}, "T3", FALSE, Ctx7)
RawPlan == Raw(RequiredFields \cup {"sessionContext", "ssid"}, "T2", FALSE, CtxPlan)
RawMissing == Raw({"timestamp", "eventType"}, "T1", TRUE, {})
RawUnknown == Raw(RequiredFields \cup {"sessionContext", "rssi"}, "T3", FALSE, CtxA)

RawEvents == {RawPlain, RawA, Raw7, RawPlan, RawMissing, RawUnknown}

RECURSIVE SeqsUpTo(_, _)
SeqsUpTo(S, n) ==
  IF n = 0 THEN {<<>>}
  ELSE LET shorter == SeqsUpTo(S, n - 1)
       IN shorter \cup {Append(b, e) : b \in {x \in shorter : Len(x) = n - 1}, e \in S}

Batches == SeqsUpTo(RawEvents, MaxBatch)

UserArgs == {None, Some(<<"a">>), Some(<<"7">>)}
AddrArgs == {None} \cup {Some(a) : a \in Addrs}

(* --------------------------- NetworkLogEntry --------------------------- *)
\* constructible, were unknown keys ignored instead of rejected
constructible_lenient(log_data) == RequiredFields \subseteq log_data.fields

\* NetworkLogEntry(**log_data) raises TypeError unless every required field
\* is given and every key is a field of the dataclass
constructible(log_data) ==
  /\ RequiredFields \subseteq log_data.fields
  /\ log_data.fields \subseteq (RequiredFields \cup OptionalFields)

\* the entry handle_log_upload builds from one raw event
NetworkLogEntry(log_data, client_ip) ==
  [timestamp |-> log_data.timestamp,
   ctxNone |-> IF "sessionContext" \in log_data.fields THEN log_data.ctxNone ELSE TRUE,
   ctx |-> IF "sessionContext" \in log_data.fields /\ ~log_data.ctxNone THEN log_data.ctx ELSE {},
   client_ip |-> client_ip]

(* ------------------------------- files --------------------------------- *)
\* size: the length of the text the file holds, counted in entries
OkFile(logs) == [ok |-> TRUE, logs |-> logs, size |-> Len(logs)]
BadFile == [ok |-> FALSE, logs |-> <<>>, size |-> 0]

_get_client_file_path(client_ip, user_id) ==
  LET safe_ip == replace(replace(client_ip, ":", "_"), ".", "_")
  IN IF truthy(user_id)
     THEN safe_ip \o S_user \o replace(replace(user_id.s, "/", "_"), "\\", "_") \o S_json
     ELSE safe_ip \o S_json

RECURSIVE extract_last_user_id(_)
\* _extract_user_id_from_logs, were the scan not stopped at the first match
extract_last_user_id(logs_data) ==
  IF logs_data = <<>> THEN None
  ELSE LET log_data == logs_data[Len(logs_data)]
           session_context == IF "sessionContext" \in log_data.fields /\ ~log_data.ctxNone
                              THEN log_data.ctx ELSE {}
       IN IF session_context # {} /\ (\E kv \in session_context : kv.k = K_userId)
          THEN Some(str((CHOOSE kv \in session_context : kv.k = K_userId).v))
          ELSE extract_last_user_id(SubSeq(logs_data, 1, Len(logs_data) - 1))

RECURSIVE _extract_user_id_from_logs(_)
_extract_user_id_from_logs(logs_data) ==
  IF logs_data = <<>> THEN None
  ELSE LET log_data == Head(logs_data)
           session_context == IF "sessionContext" \in log_data.fields /\ ~log_data.ctxNone
                              THEN log_data.ctx ELSE {}
       IN IF session_context # {} /\ (\E kv \in session_context : kv.k = K_userId)
          THEN Some(str((CHOOSE kv \in session_context : kv.k = K_userId).v))
          ELSE _extract_user_id_from_logs(Tail(logs_data))

_load_logs_from_file(fs, file_path) ==
  IF file_path \notin DOMAIN fs THEN <<>>
  ELSE IF ~fs[file_path].ok THEN <<>>
  ELSE fs[file_path].logs

\* combine, were the new entries put after the stored ones
combine_appending(new_logs, existing_logs, cap) ==
  LET all_logs == existing_logs \o new_logs
  IN IF Len(all_logs) > cap THEN SubSeq(all_logs, 1, cap) ELSE all_logs

\* combine, without the cut
combine_uncut(new_logs, existing_logs, cap) == new_logs \o existing_logs

\* new_logs + existing_logs, cut to max_logs
combine(new_logs, existing_logs, cap) ==
  LET all_logs == new_logs \o existing_logs
  IN IF Len(all_logs) > cap THEN SubSeq(all_logs, 1, cap) ELSE all_logs

\* "with open(file_path, 'w') as f: json.dump(data, f)" and its outcomes:
\* the write completes; open raises and the file is untouched; the file is
\* opened (created or truncated) and the dump raises before it is complete
WriteOutcomes == {"ok", "open_fails", "dump_fails"}

write_file(fs, file_path, logs, outcome) ==
  CASE outcome = "ok" -> (file_path :> OkFile(logs)) @@ fs
    [] outcome = "open_fails" -> fs
    [] OTHER -> (file_path :> BadFile) @@ fs

\* _save_logs_to_file, were a file that cannot be parsed left as it is
save_keeping_unreadable(fs, new_logs, file_path, cap, outcome) ==
  IF file_path \in DOMAIN fs /\ ~fs[file_path].ok THEN fs
  ELSE write_file(fs, file_path, combine(new_logs, _load_logs_from_file(fs, file_path), cap), outcome)

_save_logs_to_file(fs, new_logs, file_path, cap, outcome) ==
  LET existing_logs == _load_logs_from_file(fs, file_path)
  IN write_file(fs, file_path, combine(new_logs, existing_logs, cap), outcome)

_get_client_log_count(fs, client_ip) ==
  Len(_load_logs_from_file(fs, _get_client_file_path(client_ip, None)))

RECURSIVE count_logs(_, _)
\* the sum of len(load(f)) over the files of M
count_logs(fs, M) ==
  IF M = {} THEN 0
  ELSE LET f == CHOOSE x \in M : TRUE
       IN Len(_load_logs_from_file(fs, f)) + count_logs(fs, M \ {f})

(* ------------------------------ results -------------------------------- *)
NoResult ==
  [success |-> FALSE, raised |-> FALSE, keys |-> {}, received |-> 0, total_stored |-> 0,
   saved_to |-> <<>>, user_id |-> None, error |-> "", client_ip |-> None, count |-> 0]

SuccessResult(received, total_stored, saved_to, user_id) ==
  [NoResult EXCEPT !.success = TRUE,
                   !.keys = {"success", "received", "total_stored", "saved_to", "user_id", "timestamp"},
                   !.received = received, !.total_stored = total_stored,
                   !.saved_to = saved_to, !.user_id = user_id]

FailureResult(error, client_ip) ==
  [NoResult EXCEPT !.keys = {"success", "error", "client_ip", "timestamp"},
                   !.error = error, !.client_ip = Some(client_ip)]

CountResult(count) == [NoResult EXCEPT !.success = TRUE, !.count = count]

RaisedResult(error) == [NoResult EXCEPT !.raised = TRUE, !.error = error]

\* the call that ran last: its arguments, the file it resolved, its result
Call(op, client_ip, user_id, logs, file, result) ==
  [op |-> op, client_ip |-> client_ip, user_id |-> user_id, logs |-> logs,
   file |-> file, result |-> result]

NoCall == Call("none", None, None, <<>>, <<>>, NoResult)

\* Optional[int]
NoLimit == [some |-> FALSE, n |-> 0]
Limit(n) == [some |-> TRUE, n |-> n]

\* the query that ran last: its arguments, the order in which os.listdir
\* gave the files it loaded, and the list it returned
Query(op, client_ip, user_id, field, value, limit, order, result) ==
  [op |-> op, client_ip |-> client_ip, user_id |-> user_id, field |-> field,
   value |-> value, limit |-> limit, order |-> order, result |-> result]

NoQuery == Query("none", <<>>, <<>>, "", StrVal(<<>>), NoLimit, <<>>, <<>>)

\* two calls of _get_client_file_path and the paths they returned
NoResolve ==
  [pc |-> "none", ip1 |-> <<>>, user1 |-> None, ip2 |-> <<>>, user2 |-> None,
   path1 |-> <<>>, path2 |-> <<>>]

(* ------------------------- handle_log_upload --------------------------- *)
\* handle_log_upload, were the file resolved from the address alone
handle_log_upload_ip_file(fs, logs_data, client_ip, cap, outcome) ==
  LET user_id == _extract_user_id_from_logs(logs_data)
      client_file == _get_client_file_path(client_ip, None)
  IN IF \E i \in 1..Len(logs_data) : ~constructible(logs_data[i])
     THEN [fs |-> fs, file |-> <<>>, result |-> FailureResult("TypeError", client_ip)]
     ELSE LET new_logs == [i \in 1..Len(logs_data) |-> NetworkLogEntry(logs_data[i], client_ip)]
              saved == _save_logs_to_file(fs, new_logs, client_file, cap, outcome)
          IN IF outcome # "ok"
             THEN [fs |-> saved, file |-> client_file, result |-> FailureResult("OSError", client_ip)]
             ELSE [fs |-> saved, file |-> client_file,
                   result |-> SuccessResult(Len(new_logs), _get_client_log_count(saved, client_ip),
                                            client_file, user_id)]

\* what handle_log_upload(request_data, client_ip) does to the directory and
\* what it returns, for one outcome of the file write
handle_log_upload(fs, logs_data, client_ip, cap, outcome) ==
  LET user_id == _extract_user_id_from_logs(logs_data)
      client_file == _get_client_file_path(client_ip, user_id)
  IN IF \E i \in 1..Len(logs_data) : ~constructible(logs_data[i])
     THEN [fs |-> fs, file |-> <<>>, result |-> FailureResult("TypeError", client_ip)]
     ELSE LET new_logs == [i \in 1..Len(logs_data) |-> NetworkLogEntry(logs_data[i], client_ip)]
              saved == _save_logs_to_file(fs, new_logs, client_file, cap, outcome)
          IN IF outcome # "ok"
             THEN [fs |-> saved, file |-> client_file, result |-> FailureResult("OSError", client_ip)]
             ELSE [fs |-> saved, file |-> client_file,
                   result |-> SuccessResult(Len(new_logs), _get_client_log_count(saved, client_ip),
                                            client_file, user_id)]

Ingest ==
  /\ ops < MaxOps
  /\ \E logs_data \in Batches, client_ip \in Addrs, outcome \in WriteOutcomes :
       LET r == handle_log_upload(files, logs_data, client_ip, max_logs, outcome)
       IN /\ (\E i \in 1..Len(logs_data) : ~constructible(logs_data[i])) => outcome = "ok"
          /\ files' = r.fs
          /\ last' = Call("ingest", Some(client_ip), None, logs_data, r.file, r.result)
  /\ prev' = files
  /\ ops' = ops + 1
  /\ UNCHANGED <<max_logs, pc, loc, held, qry, rsv>>

(* ----------------------------- clear_logs ------------------------------ *)
\* the files a clear_logs call loops over (one file when both arguments are given)
clear_targets(fs, client_ip, user_id) ==
  IF truthy(client_ip) /\ truthy(user_id)
  THEN {_get_client_file_path(client_ip.s, user_id)}
  ELSE IF truthy(client_ip)
  THEN LET safe_ip == replace(replace(client_ip.s, ":", "_"), ".", "_")
       IN {f \in DOMAIN fs : endswith(f, S_json) /\ startswith(f, safe_ip)}
  ELSE IF truthy(user_id)
  THEN {f \in DOMAIN fs : endswith(f, S_json) /\ contains(f, S_user \o user_id.s)}
  ELSE {f \in DOMAIN fs : endswith(f, S_json)}

\* clear_files, were the emptied files removed from the directory
clear_files_removing(fs, done, failing, outcome) ==
  LET cleared == [f \in (DOMAIN fs) \ done |-> fs[f]]
  IN IF failing = {} THEN cleared
     ELSE write_file(cleared, CHOOSE f \in failing : TRUE, <<>>, outcome)

\* files of `done` are emptied; the write of `failing` has the given outcome
clear_files(fs, done, failing, outcome) ==
  LET cleared == [f \in done |-> OkFile(<<>>)] @@ fs
  IN IF failing = {} THEN cleared
     ELSE write_file(cleared, CHOOSE f \in failing : TRUE, <<>>, outcome)

\* clear_logs, were the entries counted after the files are emptied
clear_logs_count_after(fs, client_ip, user_id, done, failing, outcome) ==
  IF outcome = "ok"
  THEN LET cleared == clear_files(fs, done \cup failing, {}, "ok")
       IN [fs |-> cleared, result |-> CountResult(count_logs(cleared, done \cup failing))]
  ELSE [fs |-> clear_files(fs, done, failing, outcome), result |-> RaisedResult("OSError")]

\* clear_logs(client_ip, user_id): the loop visits the target files in
\* os.listdir order; `done` are the files emptied before `failing` (at most
\* one file) is reached, whose write has the given outcome
clear_logs(fs, client_ip, user_id, done, failing, outcome) ==
  IF outcome = "ok"
  THEN [fs |-> clear_files(fs, done \cup failing, {}, "ok"),
        result |-> CountResult(count_logs(fs, done \cup failing))]
  ELSE [fs |-> clear_files(fs, done, failing, outcome), result |-> RaisedResult("OSError")]

Clear ==
  /\ ops < MaxOps
  /\ \E client_ip \in AddrArgs, user_id \in UserArgs, outcome \in WriteOutcomes :
       LET targets == clear_targets(files, client_ip, user_id)
       IN \E done \in SUBSET targets :
            \E failing \in SUBSET (targets \ done) :
              /\ Cardinality(failing) <= 1
              /\ outcome = "ok" => done \cup failing = targets
              /\ outcome # "ok" => failing # {}
              /\ LET r == clear_logs(files, client_ip, user_id, done, failing, outcome)
                 IN /\ files' = r.fs
                    /\ last' = Call("clear", client_ip, user_id, <<>>,
                                    IF truthy(client_ip) /\ truthy(user_id)
                                    THEN _get_client_file_path(client_ip.s, user_id) ELSE <<>>,
                                    r.result)
  /\ prev' = files
  /\ ops' = ops + 1
  /\ UNCHANGED <<max_logs, pc, loc, held, qry, rsv>>

(* ------------------------------ Spec ----------------------------------- *)
Init ==
  /\ files = <<>>
  /\ max_logs \in 1..MaxLogsBound
  /\ last = NoCall
  /\ prev = <<>>
  /\ ops = 0
  /\ pc = <<>>
  /\ loc = <<>>
  /\ held = {}
  /\ qry = NoQuery
  /\ rsv = NoResolve

Next == Ingest \/ Clear

Spec == Init /\ [][Next]_vars

(* ----------------------------- SpecConc -------------------------------- *)
\* Callers that run at the same time on one partition.  The source takes no
\* lock, so between two file-system calls of one caller any other caller may
\* run.  Each caller uploads one event, clears the partition or loads it.
Procs == 1..NProcs
Jobs == {"upload", "clear", "load"}

CAddr == Addr12
CUser == Some(<<"a">>)
CFile == _get_client_file_path(CAddr, CUser)

\* the batch of caller p: one event of user "a" (all of one size as text)
CBatch(p) ==
  <<Raw(RequiredFields \cup {"sessionContext"},
        IF p = 1 THEN "T1" ELSE IF p = 2 THEN "T2" ELSE "T3", FALSE, CtxA)>>

CEntry0 == NetworkLogEntry(Raw(RequiredFields \cup {"sessionContext"}, "T0", FALSE, CtxA), CAddr)

Local(job) ==
  [job |-> job, client_file |-> <<>>, all_logs |-> <<>>, count |-> 0,
   result |-> <<>>, total_stored |-> 0]

\* open(file_path, 'w'): the file is created or cut to length 0
open_w(fs, file_path) == (file_path :> BadFile) @@ fs

\* json.dump(data, f) and close on a handle opened before: the text is
\* written from offset 0 over what the file holds at that moment; a longer
\* text another caller wrote since the open keeps its tail
dump_text(fs, file_path, logs) ==
  IF fs[file_path].size > Len(logs)
  THEN (file_path :> [ok |-> FALSE, logs |-> <<>>, size |-> fs[file_path].size]) @@ fs
  ELSE (file_path :> OkFile(logs)) @@ fs

Held(fs) == IF CFile \in DOMAIN fs /\ ~fs[CFile].ok THEN {} ELSE {_load_logs_from_file(fs, CFile)}

\* handle_log_upload up to the load of _save_logs_to_file and the combine
UploadLoad(p) ==
  /\ pc[p] = "start" /\ loc[p].job = "upload"
  /\ LET logs_data == CBatch(p)
         user_id == _extract_user_id_from_logs(logs_data)
         new_logs == [i \in 1..Len(logs_data) |-> NetworkLogEntry(logs_data[i], CAddr)]
         client_file == _get_client_file_path(CAddr, user_id)
         existing_logs == _load_logs_from_file(files, client_file)
     IN loc' = [loc EXCEPT ![p].client_file = client_file,
                           ![p].all_logs = combine(new_logs, existing_logs, max_logs)]
  /\ pc' = [pc EXCEPT ![p] = "loaded"]
  /\ UNCHANGED <<files, max_logs, last, prev, ops, held, qry, rsv>>

UploadOpen(p) ==
  /\ pc[p] = "loaded" /\ loc[p].job = "upload"
  /\ files' = open_w(files, loc[p].client_file)
  /\ pc' = [pc EXCEPT ![p] = "opened"]
  /\ UNCHANGED <<max_logs, last, prev, ops, loc, held, qry, rsv>>

UploadDump(p) ==
  /\ pc[p] = "opened" /\ loc[p].job = "upload"
  /\ files' = dump_text(files, loc[p].client_file, loc[p].all_logs)
  /\ held' = held \cup Held(files')
  /\ pc' = [pc EXCEPT ![p] = "written"]
  /\ UNCHANGED <<max_logs, last, prev, ops, loc, qry, rsv>>

UploadReturn(p) ==
  /\ pc[p] = "written" /\ loc[p].job = "upload"
  /\ loc' = [loc EXCEPT ![p].total_stored = _get_client_log_count(files, CAddr)]
  /\ pc' = [pc EXCEPT ![p] = "done"]
  /\ UNCHANGED <<files, max_logs, last, prev, ops, held, qry, rsv>>

\* clear_logs(client_ip, user_id), both given: load and count
ClearLoad(p) ==
  /\ pc[p] = "start" /\ loc[p].job = "clear"
  /\ LET client_file == _get_client_file_path(CAddr, CUser)
     IN loc' = [loc EXCEPT ![p].client_file = client_file,
                           ![p].count = Len(_load_logs_from_file(files, client_file))]
  /\ pc' = [pc EXCEPT ![p] = "loaded"]
  /\ UNCHANGED <<files, max_logs, last, prev, ops, held, qry, rsv>>

ClearOpen(p) ==
  /\ pc[p] = "loaded" /\ loc[p].job = "clear"
  /\ files' = open_w(files, loc[p].client_file)
  /\ pc' = [pc EXCEPT ![p] = "opened"]
  /\ UNCHANGED <<max_logs, last, prev, ops, loc, held, qry, rsv>>

ClearDump(p) ==
  /\ pc[p] = "opened" /\ loc[p].job = "clear"
  /\ files' = dump_text(files, loc[p].client_file, <<>>)
  /\ held' = held \cup Held(files')
  /\ pc' = [pc EXCEPT ![p] = "done"]
  /\ UNCHANGED <<max_logs, last, prev, ops, loc, qry, rsv>>

\* a reader: _load_logs_from_file on the partition's file
Load(p) ==
  /\ pc[p] = "start" /\ loc[p].job = "load"
  /\ loc' = [loc EXCEPT ![p].client_file = CFile,
                        ![p].result = _load_logs_from_file(files, CFile)]
  /\ pc' = [pc EXCEPT ![p] = "done"]
  /\ UNCHANGED <<files, max_logs, last, prev, ops, held, qry, rsv>>

InitConc ==
  /\ max_logs \in 1..MaxLogsBound
  /\ files \in {<<>>, CFile :> OkFile(<<CEntry0>>)}
  /\ prev = files
  /\ last = NoCall
  /\ ops = 0
  /\ pc = [p \in Procs |-> "start"]
  /\ loc \in [Procs -> {Local(j) : j \in Jobs}]
  /\ held = Held(files)
  /\ qry = NoQuery
  /\ rsv = NoResolve

NextConc ==
  \E p \in Procs :
    \/ UploadLoad(p)
    \/ UploadOpen(p)
    \/ UploadDump(p)
    \/ UploadReturn(p)
    \/ ClearLoad(p)
    \/ ClearOpen(p)
    \/ ClearDump(p)
    \/ Load(p)

SpecConc == InitConc /\ [][NextConc]_vars

(* ------------------------------ queries -------------------------------- *)
\* the code points of the characters of the timestamps
Ord ==
  ("0" :> 48) @@ ("1" :> 49) @@ ("2" :> 50) @@ ("3" :> 51) @@ ("T" :> 84)

\* the characters of the timestamps of the inputs
TsText ==
  ("T0" :> <<"T", "0">>) @@ ("T1" :> <<"T", "1">>) @@ ("T2" :> <<"T", "2">>) @@
  ("T3" :> <<"T", "3">>)

RECURSIVE str_lt(_, _)
\* Python's a < b on strings
str_lt(a, b) ==
  IF b = <<>> THEN FALSE
  ELSE IF a = <<>> THEN TRUE
  ELSE IF Ord[Head(a)] # Ord[Head(b)] THEN Ord[Head(a)] < Ord[Head(b)]
  ELSE str_lt(Tail(a), Tail(b))

ts_lt(x, y) == str_lt(TsText[x.timestamp], TsText[y.timestamp])

\* x put into a newest-first list after the entries that are not older
insert_newest_first(sorted, x) ==
  LET k == Cardinality({i \in 1..Len(sorted) : ~ts_lt(sorted[i], x)})
  IN SubSeq(sorted, 1, k) \o <<x>> \o SubSeq(sorted, k + 1, Len(sorted))

RECURSIVE sort_oldest_first(_)
\* sort_newest_first, were reverse=True left out
sort_oldest_first(logs) ==
  IF logs = <<>> THEN <<>>
  ELSE LET sorted == sort_oldest_first(SubSeq(logs, 1, Len(logs) - 1))
           x == logs[Len(logs)]
           k == Cardinality({i \in 1..Len(sorted) : ~ts_lt(x, sorted[i])})
       IN SubSeq(sorted, 1, k) \o <<x>> \o SubSeq(sorted, k + 1, Len(sorted))

RECURSIVE sort_newest_first(_)
\* logs.sort(key=lambda x: x.timestamp, reverse=True): a stable sort
sort_newest_first(logs) ==
  IF logs = <<>> THEN <<>>
  ELSE insert_newest_first(sort_newest_first(SubSeq(logs, 1, Len(logs) - 1)), logs[Len(logs)])

\* "if limit: logs = logs[:limit]" (None and 0 are falsy)
apply_limit(logs, limit) ==
  IF limit.some /\ limit.n # 0
  THEN SubSeq(logs, 1, IF limit.n < Len(logs) THEN limit.n ELSE Len(logs))
  ELSE logs

RECURSIVE gather_until_unreadable(_, _)
\* gather, were a file that cannot be parsed to end the scan
gather_until_unreadable(fs, listing) ==
  IF listing = <<>> THEN <<>>
  ELSE IF Head(listing) \in DOMAIN fs /\ ~fs[Head(listing)].ok THEN <<>>
  ELSE _load_logs_from_file(fs, Head(listing)) \o gather_until_unreadable(fs, Tail(listing))

RECURSIVE gather(_, _)
\* the loaded logs of the listed files, one file after another
gather(fs, listing) ==
  IF listing = <<>> THEN <<>>
  ELSE _load_logs_from_file(fs, Head(listing)) \o gather(fs, Tail(listing))

\* get_logs_ip, were only the address-only file loaded
get_logs_ip_one_file(fs, client_ip, limit, listing) ==
  LET safe_ip == replace(replace(client_ip, ":", "_"), ".", "_")
      matching(f) == f = safe_ip \o S_json
  IN apply_limit(sort_newest_first(gather(fs, SelectSeq(listing, matching))), limit)

\* listing: the directory as os.listdir returns it
get_logs_ip(fs, client_ip, limit, listing) ==
  LET safe_ip == replace(replace(client_ip, ":", "_"), ".", "_")
      matching(f) == endswith(f, S_json) /\ startswith(f, safe_ip)
  IN apply_limit(sort_newest_first(gather(fs, SelectSeq(listing, matching))), limit)

get_logs_user(fs, user_id, limit, listing) ==
  LET matching(f) == endswith(f, S_json) /\ contains(f, S_user \o user_id)
  IN apply_limit(sort_newest_first(gather(fs, SelectSeq(listing, matching))), limit)

\* session_match, were the values compared with their types
session_match_typed(log, session_field, session_value) ==
  /\ ~(log.ctxNone \/ log.ctx = {} \/ ~(\E kv \in log.ctx : kv.k = session_field))
  /\ (CHOOSE kv \in log.ctx : kv.k = session_field).v = session_value

\* the test get_logs_session_context applies to one loaded entry
session_match(log, session_field, session_value) ==
  /\ ~(log.ctxNone \/ log.ctx = {} \/ ~(\E kv \in log.ctx : kv.k = session_field))
  /\ str((CHOOSE kv \in log.ctx : kv.k = session_field).v) = str(session_value)

get_logs_session_context(fs, session_field, session_value, limit, listing) ==
  LET is_json(f) == endswith(f, S_json)
      matches(log) == session_match(log, session_field, session_value)
  IN apply_limit(sort_newest_first(SelectSeq(gather(fs, SelectSeq(listing, is_json)), matches)), limit)

(* ------------------------------- SpecQ ---------------------------------- *)
CtxAB == {[k |-> K_userId, v |-> StrVal(<<"a", "/", "b">>)], [k |-> K_plan, v |-> IntVal(<<"7">>)]}
RawAB == Raw(RequiredFields \cup {"sessionContext"}, "T1", FALSE, CtxAB)

QRawEvents == {RawPlain, RawA, RawAB, RawPlan}
QUsers == {<<"a">>, <<"a", "/", "b">>}
QUserArgs == {None} \cup {Some(u) : u \in QUsers}
QLimits == {NoLimit, Limit(0), Limit(1)}
QValues == {StrVal(<<"p">>), StrVal(<<"7">>)}

RECURSIVE Listings(_)
\* the orders in which os.listdir may give the files of S
Listings(S) ==
  IF S = {} THEN {<<>>}
  ELSE UNION {{<<f>> \o l : l \in Listings(S \ {f})} : f \in S}

QUpload ==
  /\ ops < MaxQOps
  /\ \E e \in QRawEvents, client_ip \in Addrs, outcome \in WriteOutcomes :
       LET r == handle_log_upload(files, <<e>>, client_ip, max_logs, outcome)
       IN /\ files' = r.fs
          /\ last' = Call("ingest", Some(client_ip), None, <<e>>, r.file, r.result)
  /\ prev' = files
  /\ ops' = ops + 1
  /\ qry' = NoQuery
  /\ UNCHANGED <<max_logs, pc, loc, held, rsv>>

QClear ==
  /\ ops < MaxQOps
  /\ \E client_ip \in AddrArgs, user_id \in QUserArgs, outcome \in WriteOutcomes :
       LET targets == clear_targets(files, client_ip, user_id)
       IN \E done \in SUBSET targets :
            \E failing \in SUBSET (targets \ done) :
              /\ Cardinality(failing) <= 1
              /\ outcome = "ok" => done \cup failing = targets
              /\ outcome # "ok" => failing # {}
              /\ LET r == clear_logs(files, client_ip, user_id, done, failing, outcome)
                 IN /\ files' = r.fs
                    /\ last' = Call("clear", client_ip, user_id, <<>>,
                                    IF truthy(client_ip) /\ truthy(user_id)
                                    THEN _get_client_file_path(client_ip.s, user_id) ELSE <<>>,
                                    r.result)
  /\ prev' = files
  /\ ops' = ops + 1
  /\ qry' = NoQuery
  /\ UNCHANGED <<max_logs, pc, loc, held, rsv>>

QueryIp ==
  /\ ops < MaxQOps
  /\ \E client_ip \in Addrs, limit \in QLimits, listing \in Listings(DOMAIN files) :
       qry' = Query("get_logs_ip", client_ip, <<>>, "", StrVal(<<>>), limit, listing,
                    get_logs_ip(files, client_ip, limit, listing))
  /\ ops' = ops + 1
  /\ UNCHANGED <<files, max_logs, last, prev, pc, loc, held, rsv>>

QueryUser ==
  /\ ops < MaxQOps
  /\ \E user_id \in QUsers, limit \in QLimits, listing \in Listings(DOMAIN files) :
       qry' = Query("get_logs_user", <<>>, user_id, "", StrVal(<<>>), limit, listing,
                    get_logs_user(files, user_id, limit, listing))
  /\ ops' = ops + 1
  /\ UNCHANGED <<files, max_logs, last, prev, pc, loc, held, rsv>>

QuerySession ==
  /\ ops < MaxQOps
  /\ \E value \in QValues, limit \in QLimits, listing \in Listings(DOMAIN files) :
       qry' = Query("get_logs_session_context", <<>>, <<>>, K_plan, value, limit, listing,
                    get_logs_session_context(files, K_plan, value, limit, listing))
  /\ ops' = ops + 1
  /\ UNCHANGED <<files, max_logs, last, prev, pc, loc, held, rsv>>

NextQ == QUpload \/ QClear \/ QueryIp \/ QueryUser \/ QuerySession

SpecQ == Init /\ [][NextQ]_vars

(* ------------------------------- SpecR ---------------------------------- *)
\* _get_client_file_path on two (address, user id) pairs
RAddrs == {Addr12, <<"1", ":", "2">>, Addr120, Addr12 \o S_user \o <<"a">>}
RUsers == {None, Some(<<"a">>), Some(<<"a", "/", "b">>), Some(<<"a", "_", "b">>)}

InitR ==
  /\ files = <<>>
  /\ max_logs \in 1..MaxLogsBound
  /\ last = NoCall
  /\ prev = <<>>
  /\ ops = 0
  /\ pc = <<>>
  /\ loc = <<>>
  /\ held = {}
  /\ qry = NoQuery
  /\ rsv \in {[NoResolve EXCEPT !.pc = "start", !.ip1 = a1, !.user1 = u1, !.ip2 = a2, !.user2 = u2] :
                a1 \in RAddrs, u1 \in RUsers, a2 \in RAddrs, u2 \in RUsers}

Resolve ==
  /\ rsv.pc = "start"
  /\ rsv' = [rsv EXCEPT !.pc = "done",
                        !.path1 = _get_client_file_path(rsv.ip1, rsv.user1),
                        !.path2 = _get_client_file_path(rsv.ip2, rsv.user2)]
  /\ UNCHANGED <<files, max_logs, last, prev, ops, pc, loc, held, qry>>

NextR == Resolve

SpecR == InitR /\ [][NextR]_vars

(* ------------------------ properties of Spec --------------------------- *)
Min(a, b) == IF a < b THEN a ELSE b

Take(s, n) == SubSeq(s, 1, Min(n, Len(s)))

IsIngest == last.op = "ingest"
IngestOk == IsIngest /\ last.result.success

\* the entries of the last uploaded batch, in batch order
BatchEntries == [i \in 1..Len(last.logs) |-> NetworkLogEntry(last.logs[i], last.client_ip.s)]

\* the stored log of a file, before and after the last call
Before(f) == _load_logs_from_file(prev, f)
After(f) == _load_logs_from_file(files, f)

\* files other than f are as they were before the last call
OthersUnchanged(f) ==
  \A g \in (DOMAIN files \cup DOMAIN prev) \ {f} :
    g \in DOMAIN files /\ g \in DOMAIN prev /\ files[g] = prev[g]

\* C1: after a successful upload of batch B into partition P the stored log
\* of P is the first max_logs entries of B (in batch order) followed by P's
\* prior entries, so its length is min(max_logs, prior + len(B))
C1_AppendIsPrependThenCut ==
  IngestOk =>
    LET P == last.result.saved_to
    IN /\ After(P) = Take(BatchEntries \o Before(P), max_logs)
       /\ Len(After(P)) = Min(max_logs, Len(Before(P)) + Len(BatchEntries))

C1_Witness ==
  /\ IngestOk
  /\ Len(last.logs) >= 1
  /\ Len(Before(last.result.saved_to)) >= 1
  /\ Len(last.logs) + Len(Before(last.result.saved_to)) > max_logs

\* C2: every persisted log has at most max_logs entries
C2_LogsWithinCap == \A f \in DOMAIN files : Len(files[f].logs) <= max_logs

C2_Witness ==
  /\ IngestOk
  /\ Len(last.logs) > max_logs
  /\ Len(files[last.result.saved_to].logs) = max_logs

\* C3: total_stored of a successful upload is the number of entries stored
\* in the partition the batch was written to
C3_TotalStoredIsWrittenPartitionCount ==
  IngestOk => last.result.total_stored = Len(After(last.result.saved_to))

\* the positions of the batch whose sessionContext has a userId key
UserIdPositions ==
  {i \in 1..Len(last.logs) :
     /\ "sessionContext" \in last.logs[i].fields
     /\ ~last.logs[i].ctxNone
     /\ \E kv \in last.logs[i].ctx : kv.k = K_userId}

UserIdAt(i) == str((CHOOSE kv \in last.logs[i].ctx : kv.k = K_userId).v)

\* the userId of the first event that carries one, None when no event does
FirstUserId ==
  IF UserIdPositions = {} THEN None
  ELSE Some(UserIdAt(CHOOSE i \in UserIdPositions : \A j \in UserIdPositions : i <= j))

\* C4: a successful upload stores its batch in one partition only, the one
\* resolved from the caller address and the userId of the first event that
\* carries one (the address-only partition when none does)
C4_BatchGoesToFirstUserPartition ==
  IngestOk =>
    LET P == _get_client_file_path(last.client_ip.s, FirstUserId)
        n == Min(Len(last.logs), max_logs)
    IN /\ last.result.saved_to = P
       /\ last.result.user_id = FirstUserId
       /\ Take(After(P), n) = Take(BatchEntries, n)
       /\ OthersUnchanged(P)

C4_Witness ==
  /\ IngestOk
  /\ Cardinality(UserIdPositions) = 2
  /\ UserIdAt(1) # UserIdAt(2)
  /\ Len(After(_get_client_file_path(last.client_ip.s, Some(UserIdAt(1))))) >= 1

\* C5: an upload, successful or not, leaves every partition other than the
\* one its batch resolves to as it was
C5_UploadLeavesOtherPartitions ==
  IsIngest =>
    OthersUnchanged(_get_client_file_path(last.client_ip.s, FirstUserId))

C5_Witness ==
  /\ IsIngest
  /\ UserIdPositions # {}
  /\ files # prev
  /\ \E g \in DOMAIN prev :
       /\ g # _get_client_file_path(last.client_ip.s, FirstUserId)
       /\ Len(prev[g].logs) >= 1

PersistFailed == IsIngest /\ last.result.error = "OSError"

\* C7: when the write of an upload fails the upload returns a failure and
\* the partition's file is what it was before the upload
C7_FailedPersistKeepsPriorLog ==
  PersistFailed =>
    /\ ~last.result.success
    /\ (last.file \in DOMAIN files) = (last.file \in DOMAIN prev)
    /\ last.file \in DOMAIN prev => files[last.file] = prev[last.file]

Malformed(e) ==
  \/ \E k \in RequiredFields : k \notin e.fields
  \/ \E k \in e.fields : k \notin RequiredFields /\ k \notin OptionalFields

\* C9: an upload with a malformed event returns a failure result (it does
\* not raise) with error, client_ip and timestamp, and stores nothing
C9_MalformedBatchStoresNothing ==
  (IsIngest /\ \E i \in 1..Len(last.logs) : Malformed(last.logs[i])) =>
    /\ ~last.result.success
    /\ ~last.result.raised
    /\ last.result.keys = {"success", "error", "client_ip", "timestamp"}
    /\ last.result.client_ip = last.client_ip
    /\ files = prev

C9_Witness ==
  /\ IsIngest
  /\ Len(last.logs) = 2
  /\ ~Malformed(last.logs[1])
  /\ Malformed(last.logs[2])
  /\ ~last.result.success
  /\ \E g \in DOMAIN files : Len(files[g].logs) >= 1

ClearOne == last.op = "clear" /\ truthy(last.client_ip) /\ truthy(last.user_id)

\* C10: clear_logs(address, userId), when it returns, returns the number of
\* entries the partition held before the call, and the partition then loads
\* as the empty sequence
C10_ClearReturnsPriorCount ==
  (ClearOne /\ ~last.result.raised) =>
    LET P == _get_client_file_path(last.client_ip.s, last.user_id)
    IN /\ last.result.count = Len(Before(P))
       /\ After(P) = <<>>

C10_Witness ==
  /\ ClearOne
  /\ ~last.result.raised
  /\ last.result.count >= 1

(* ---------------------- properties of SpecConc ------------------------- *)
AllDone == pc # <<>> /\ \A p \in Procs : pc[p] = "done"

Writers == {p \in Procs : loc[p].job \in {"upload", "clear"}}

\* caller p run alone on directory fs, by the handlers of Spec
RunAlone(p, fs) ==
  IF loc[p].job = "upload"
  THEN [fs |-> handle_log_upload(fs, CBatch(p), CAddr, max_logs, "ok").fs, count |-> 0]
  ELSE LET r == clear_logs(fs, Some(CAddr), CUser, {CFile}, {}, "ok")
       IN [fs |-> r.fs, count |-> r.result.count]

RECURSIVE SerialRuns(_, _, _)
\* the final log and the counts returned when the callers of todo run one
\* after another from directory fs, in every order
SerialRuns(fs, todo, counts) ==
  IF todo = {} THEN {[log |-> _load_logs_from_file(fs, CFile), counts |-> counts]}
  ELSE UNION {SerialRuns(RunAlone(p, fs).fs, todo \ {p},
                         [counts EXCEPT ![p] = RunAlone(p, fs).count]) : p \in todo}

\* C6: when concurrent uploads and clears of one partition are done, the
\* partition's log and the counts the clears returned are those of running
\* the calls one after another in some order
C6_WritersAreSerialized ==
  AllDone =>
    [log |-> _load_logs_from_file(files, CFile), counts |-> [p \in Procs |-> loc[p].count]]
      \in SerialRuns(prev, Writers, [p \in Procs |-> 0])

\* C8: a load that runs while the partition is written returns a complete
\* log the partition has held, never the empty result of a half-done write
C8_LoadSeesCompleteLog ==
  pc # <<>> =>
    \A p \in Procs : (loc[p].job = "load" /\ pc[p] = "done") => loc[p].result \in held

(* ------------------------ properties of SpecQ -------------------------- *)
SafeIp(client_ip) == replace(replace(client_ip, ":", "_"), ".", "_")
SafeUser(user_id) == replace(replace(user_id, "/", "_"), "\\", "_")

\* f is the file of a partition of this address: the address-only one or a
\* user-suffixed one
OfAddress(f, client_ip) ==
  \/ f = SafeIp(client_ip) \o S_json
  \/ startswith(f, SafeIp(client_ip) \o S_user) /\ endswith(f, S_json)

\* f is the file of a partition of this user, at any address
OfUser(f, user_id) == endswith(f, S_user \o SafeUser(user_id) \o S_json)

\* the partitions a clear_logs call is to empty, by its argument pattern
Selected(client_ip, user_id) ==
  IF truthy(client_ip) /\ truthy(user_id)
  THEN {_get_client_file_path(client_ip.s, user_id)}
  ELSE IF truthy(client_ip) THEN {f \in DOMAIN prev : OfAddress(f, client_ip.s)}
  ELSE IF truthy(user_id) THEN {f \in DOMAIN prev : OfUser(f, user_id.s)}
  ELSE DOMAIN prev

RECURSIVE SumBefore(_)
SumBefore(S) ==
  IF S = {} THEN 0
  ELSE LET f == CHOOSE x \in S : TRUE IN Len(Before(f)) + SumBefore(S \ {f})

ClearReturned == last.op = "clear" /\ ~last.result.raised

\* C11: a clear_logs call that returns has emptied the partitions its
\* argument pattern selects and returns the sum of their prior counts
C11_ClearEmptiesSelectedPartitions ==
  ClearReturned =>
    LET sel == Selected(last.client_ip, last.user_id)
    IN /\ \A f \in sel : After(f) = <<>>
       /\ last.result.count = SumBefore(sel)

\* how often e occurs in a list
Occ(logs, e) == Cardinality({i \in DOMAIN logs : logs[i] = e})

RECURSIVE OccIn(_, _)
\* how often e occurs in the stored logs of the files of S
OccIn(S, e) ==
  IF S = {} THEN 0
  ELSE LET f == CHOOSE x \in S : TRUE IN Occ(After(f), e) + OccIn(S \ {f}, e)

StoredEntries == UNION {{After(f)[i] : i \in DOMAIN After(f)} : f \in DOMAIN files}

ResultEntries == {qry.result[i] : i \in DOMAIN qry.result}

\* the result holds exactly the stored entries of the files of S that
\* satisfy Keep, each as often as it is stored
ResultIsUnionOf(S, Keep(_)) ==
  /\ \A e \in ResultEntries : Keep(e) /\ OccIn(S, e) >= 1
  /\ \A e \in StoredEntries : Keep(e) => Occ(qry.result, e) = OccIn(S, e)

AnyEntry(e) == TRUE

ByAddress == qry.op = "get_logs_ip"
ByUser == qry.op = "get_logs_user"
BySession == qry.op = "get_logs_session_context"

\* C12: get_logs_ip(addr) without a limit returns exactly the entries of
\* the files whose name starts with the sanitized address, none missing and
\* none twice
C12_ByAddressIsUnionOfPrefixFiles ==
  (ByAddress /\ qry.limit = NoLimit) =>
    ResultIsUnionOf({f \in DOMAIN files : startswith(f, SafeIp(qry.client_ip))}, AnyEntry)

C12_Witness ==
  /\ ByAddress /\ qry.limit = NoLimit
  /\ Len(qry.result) >= 2
  /\ Len(After(_get_client_file_path(qry.client_ip, None))) >= 1
  /\ \E u \in QUsers : Len(After(_get_client_file_path(qry.client_ip, Some(u)))) >= 1

\* C13: get_logs_user(userId) without a limit returns the entries of every
\* file whose name contains the sanitized user suffix, so every entry stored
\* under resolve(addr, userId) is returned, for any addr
C13_ByUserFindsSanitizedSuffix ==
  (ByUser /\ qry.limit = NoLimit) =>
    /\ ResultIsUnionOf({f \in DOMAIN files : contains(f, S_user \o SafeUser(qry.user_id))}, AnyEntry)
    /\ \A a \in Addrs :
         LET P == _get_client_file_path(a, Some(qry.user_id))
         IN \A i \in DOMAIN After(P) : Occ(qry.result, After(P)[i]) >= 1

\* the value of the session field of a stored entry has the text of value
HasAttribute(e) ==
  /\ ~e.ctxNone
  /\ \E kv \in e.ctx : kv.k = qry.field /\ kv.v.s = qry.value.s

\* C14: get_logs_session_context(field, value) without a limit returns
\* exactly the stored entries, of all files, whose sessionContext has field
\* with a value of the same text as value
C14_BySessionIsLooseMatch ==
  (BySession /\ qry.limit = NoLimit) => ResultIsUnionOf(DOMAIN files, HasAttribute)

C14_Witness ==
  /\ BySession /\ qry.limit = NoLimit
  /\ \E e \in ResultEntries : \E kv \in e.ctx : kv.k = qry.field /\ kv.v # qry.value
  /\ \E e \in StoredEntries : e \notin ResultEntries

AQuery == qry.op # "none"

\* the files a query loads
Scanned(f) ==
  /\ endswith(f, S_json)
  /\ ByAddress => startswith(f, SafeIp(qry.client_ip))
  /\ ByUser => contains(f, S_user \o qry.user_id)

KeepEntry(e) == BySession => HasAttribute(e)

\* the entries in the order the query came by them: file after file in the
\* order of the directory listing, each file's entries in stored order
Gathered == SelectSeq(gather(files, SelectSeq(qry.order, Scanned)), KeepEntry)

WithTimestamp(logs, t) == SelectSeq(logs, LAMBDA e : e.timestamp = t)

IsPrefix(a, b) == Len(a) <= Len(b) /\ SubSeq(b, 1, Len(a)) = a

\* C15: the result of each query is in non-increasing order of timestamp,
\* and entries of equal timestamp keep the order in which they were gathered
C15_ResultNewestFirstAndStable ==
  AQuery =>
    /\ \A i, j \in DOMAIN qry.result : i < j => ~ts_lt(qry.result[i], qry.result[j])
    /\ \A t \in DOMAIN TsText :
         IsPrefix(WithTimestamp(qry.result, t), WithTimestamp(Gathered, t))

C15_Witness ==
  /\ AQuery
  /\ Len(qry.result) >= 2
  /\ qry.result[1].timestamp = qry.result[2].timestamp
  /\ qry.result[1] # qry.result[2]
  /\ Len(qry.order) >= 2

\* the list the same query returns without a limit
Unlimited ==
  CASE ByAddress -> get_logs_ip(files, qry.client_ip, NoLimit, qry.order)
    [] ByUser -> get_logs_user(files, qry.user_id, NoLimit, qry.order)
    [] OTHER -> get_logs_session_context(files, qry.field, qry.value, NoLimit, qry.order)

\* C16: with a limit n >= 0 the result is the first n entries of the result
\* without a limit
C16_LimitTakesFirstN ==
  (AQuery /\ qry.limit.some) => qry.result = Take(Unlimited, qry.limit.n)

UnreadableScanned == {f \in DOMAIN files : Scanned(f) /\ ~files[f].ok}
ReadableScanned == {f \in DOMAIN files : Scanned(f) /\ files[f].ok}

\* C17: a query that scans a file it cannot parse still returns, and returns
\* exactly the matching entries of the files it can parse
C17_UnreadableFileIsSkipped ==
  (AQuery /\ qry.limit = NoLimit /\ UnreadableScanned # {}) =>
    ResultIsUnionOf(ReadableScanned, KeepEntry)

C17_Witness ==
  /\ AQuery /\ qry.limit = NoLimit
  /\ Len(qry.order) >= 2
  /\ qry.order[1] \in UnreadableScanned
  /\ qry.order[2] \in ReadableScanned
  /\ Len(qry.result) >= 1

\* C18: a file of the directory is never removed: clear_logs leaves the
\* files it empties in place, and a query leaves the directory as it is
C18_PartitionsAreNeverDestroyed ==
  [][/\ DOMAIN files \subseteq DOMAIN files'
     /\ qry'.op # "none" => files' = files
     /\ (qry'.op = "none" /\ last'.op = "clear" /\ ~last'.result.raised) =>
          \A f \in clear_targets(files, last'.client_ip, last'.user_id) :
            f \in DOMAIN files' /\ files'[f] = OkFile(<<>>)]_vars

C18_Witness ==
  /\ ClearReturned
  /\ \E f \in DOMAIN prev :
       /\ Len(prev[f].logs) >= 1
       /\ f \in DOMAIN files
       /\ files[f].logs = <<>>

(* ------------------------ properties of SpecR -------------------------- *)
\* C19: two different (address, user id) pairs never resolve to one file
C19_ResolverIsInjective ==
  (rsv.pc = "done" /\ <<rsv.ip1, rsv.user1>> # <<rsv.ip2, rsv.user2>>) =>
    rsv.path1 # rsv.path2

(* ------------------- properties of SpecQ, continued -------------------- *)
\* the stored log of f before the last call came from other addresses only
WrittenByOthers(f, client_ip) ==
  /\ Before(f) # <<>>
  /\ \A i \in DOMAIN Before(f) : Before(f)[i].client_ip # client_ip

ClearByAddress == ClearReturned /\ truthy(last.client_ip) /\ ~truthy(last.user_id)

\* C20: get_logs_ip(addr) returns only entries whose client_ip is addr, and
\* clear_logs(addr) leaves the partitions written by other addresses as
\* they were
C20_AddressOperationsStayInAddress ==
  /\ ByAddress => \A i \in DOMAIN qry.result : qry.result[i].client_ip = qry.client_ip
  /\ ClearByAddress =>
       \A f \in DOMAIN prev : WrittenByOthers(f, last.client_ip.s) => files[f] = prev[f]

(* -------------------- properties of Spec, continued -------------------- *)
\* the last call was an upload of a batch whose events all construct, into
\* a partition whose file could not be parsed when the upload began
IngestOverUnreadable ==
  /\ IsIngest
  /\ \A i \in 1..Len(last.logs) : ~Malformed(last.logs[i])
  /\ last.file \in DOMAIN prev
  /\ ~prev[last.file].ok

\* C21: an upload of a valid batch B into a partition whose file cannot be
\* parsed does not fail because of that file: unless its own write fails it
\* returns success, and the file is then readable and holds exactly the
\* first max_logs entries of B
C21_UnreadablePartitionIsOverwritten ==
  IngestOverUnreadable =>
    \/ PersistFailed
    \/ /\ last.result.success
       /\ last.result.received = Len(last.logs)
       /\ last.result.saved_to = last.file
       /\ files[last.file] = OkFile(Take(BatchEntries, max_logs))
       /\ After(last.file) = Take(BatchEntries, max_logs)

C21_Witness ==
  /\ IngestOverUnreadable
  /\ last.result.success
  /\ Len(BatchEntries) > max_logs
  /\ files[last.file].ok
  /\ Len(After(last.file)) = max_logs
====
